---- MODULE Spec2Model ----
(***************************************************************************)
(* The counting service: the CounterStore backends (in-memory, Cockroach   *)
(* with reconnect, Postgres, Redis), the backend selection of main, and    *)
(* the HTTP handler CountHandler.ServeHTTP.                                *)
(*                                                                         *)
(* Two builds of the service are in the repository:                        *)
(*   "main"   src/counting-service/main.go  (memory | cockroach)           *)
(*   "redis"  src/unnamed/part_005          (memory | postgres | redis)    *)
(*                                                                         *)
(* A request is one goroutine running ServeHTTP; its steps are the points  *)
(* where it touches shared state: a lock, the handle c.db, a statement     *)
(* sent to the database.  Purely local computation (building the Count     *)
(* value, writeJSON) is part of the step that precedes it.                 *)
(***************************************************************************)
EXTENDS Integers, Sequences, FiniteSets, TLC

\* Number of GET / requests of a run.
MaxReq == 2
\* Largest counter value a persistent backend holds when the service starts.
MaxOld == 1

Reqs == 1..MaxReq

Builds == {"main", "redis"}
\* Values of STORAGE_MODE: unset, the recognized names, and one other value.
Modes == {"", "memory", "cockroach", "postgres", "redis", "bogus"}
\* Values of PG_URL: unset or a connection string.
URLs == {"", "postgres://db"}
Networked == {"cockroach", "postgres", "redis"}

\* os.Hostname() of the host the service runs on.
HostName == "counting-1"

VARIABLES
  build,        \* which main package runs
  storageMode,  \* os.Getenv("STORAGE_MODE")
  pgURL,        \* os.Getenv("PG_URL")
  old,          \* the counter the backend held when the service started,
                \* 0 when it held no counter row
  pcMain,       \* "boot" | "serving" | "exited"
  store,        \* the CounterStore main constructed: "none" before
  bootUp,       \* history: the backend was reachable when main ran
  dbUp,         \* the backend (database or Redis) is reachable
  tableExists,  \* SQL: the counts table exists
  rowExists,    \* SQL: the counter row exists
  count,        \* the counter the backend stores (the row, the Redis key)
  memCount,     \* InMemoryStore.count
  cur,          \* CockroachStore.db / PostgresStore.db: a pool id, 0 = nil
  pools,        \* pool ids opened so far (sql.Open)
  closed,       \* pool ids closed (db.Close)
  memMu,        \* InMemoryStore.mu: the request holding it, 0 = free
  reconnectMu,  \* CockroachStore.reconnectMu: the request holding it, 0
  mu,           \* CockroachStore.mu: the request holding it for writing, 0
  pc,           \* each request's position
  db,           \* each request's local handle (db := c.currentDB())
  newDB,        \* reconnect's local newDB
  oldDB,        \* reconnect's local oldDB
  err,          \* the error of the request's first incrOnce, <<>> = nil
  newCount,     \* the count Incr returned (kept as history)
  resp,         \* the response written, NoResp before
  attempts,     \* history: incrOnce calls made by the request
  reconnects,   \* history: reconnect calls made by the request
  incs,         \* history: increments of the stored counter by the request
  infoErr,      \* history: the request's GetInfo/GetDBNode returned an error
  downAll,      \* history: the backend was unreachable all through the request
  overlapped,   \* history: two requests were in flight at once
  ws,           \* dashboard page: the WebSocket ws, "none" before connect()
  status,       \* dashboard page: text of #connection-status
  connected,    \* dashboard page: #connection-status has class "connected"
  banner,       \* dashboard page: #error-banner, its display and text
  countText,    \* dashboard page: text of #count
  timers,       \* dashboard page: pending setTimeout(connect, 2000) timers
  last,         \* dashboard page: the last message received, NoMsg before
  lastEvent,    \* dashboard page: the handler that ran last
  timeoutMS,    \* the text of DB_REQUEST_TIMEOUT_MS or DNS_TIMEOUT_MS
  timeoutFn,    \* the timeout getter that ran, "none" before
  timeout       \* the time.Duration it returned, <<>> before

envVars  == <<build, storageMode, pgURL, old>>
cfgVars  == <<timeoutMS, timeoutFn, timeout>>
mainVars == <<pcMain, store, bootUp>>
sqlVars  == <<tableExists, rowExists>>
poolVars == <<cur, pools, closed>>
lockVars == <<memMu, reconnectMu, mu>>
locals   == <<db, newDB, oldDB, err>>
histVars == <<attempts, reconnects, incs>>
dashVars == <<ws, status, connected, banner, countText, timers, last,
              lastEvent>>

vars == <<dashVars, envVars, cfgVars, mainVars, dbUp, sqlVars, count, memCount, poolVars,
          lockVars, pc, locals, newCount, resp, histVars, infoErr, downAll,
          overlapped>>

\* What request steps other than Start leave alone.
fixedVars == <<dashVars, envVars, cfgVars, mainVars, dbUp, downAll, overlapped>>

NoResp == [status |-> 0, count |-> 0, hostname |-> "", node |-> "", message |-> <<>>]

InFlight(r) == pc[r] \notin {"idle", "done", "health"}

\* The counter of the store in use.
Stored == IF store = "memory" THEN memCount ELSE count

(***************************************************************************)
(* Startup: main picks the store from STORAGE_MODE.                        *)
(***************************************************************************)

\* SelectMain with the default case falling to the networked store.
SelectMainDefaultCockroach(mode) ==
  IF mode \in {"", "memory"} THEN "memory" ELSE "cockroach"

\* main.go: "" and "memory" are in-memory, "cockroach" is CockroachStore, any
\* other value warns and falls back to in-memory.
SelectMain(mode) ==
  CASE mode \in {"", "memory"} -> "memory"
    [] mode = "cockroach"      -> "cockroach"
    [] OTHER                   -> "memory"

\* part_005: "memory" and "postgres" are recognized, every other value
\* (unset included) is the Redis store.
SelectRedisBuild(mode) ==
  CASE mode = "memory"   -> "memory"
    [] mode = "postgres" -> "postgres"
    [] OTHER             -> "redis"

SelectStore(b, mode) ==
  IF b = "main" THEN SelectMain(mode) ELSE SelectRedisBuild(mode)

\* openCockroachDB that returns the pool it closed after a failed ping.
OpenReturnsClosed(id) ==
  IF dbUp THEN [db |-> id, closed |-> closed]
          ELSE [db |-> id, closed |-> closed \cup {id}]

\* openCockroachDB: sql.Open, then a ping; a failed ping closes the pool and
\* is an error.  The result: the pool id (0 with an error) and the closed set.
\* sql.Open itself only fails for an unregistered driver, and the pgx driver
\* is registered by the import.
OpenCockroachDB(id) ==
  IF dbUp THEN [db |-> id, closed |-> closed]
          ELSE [db |-> 0,  closed |-> closed \cup {id}]

\* CockroachFatal without the check of NewCockroachStore's error.
CockroachFatalURLOnly(url, opened) == url = ""

\* CockroachFatal without any check: main goes on with whatever it has.
CockroachFatalNever(url, opened) == FALSE

\* log.Fatal in main: a missing PG_URL, or NewCockroachStore's error.
CockroachFatal(url, opened) == url = "" \/ opened.db = 0

\* getPostgresDB: an unset PG_URL takes the default, and a failed ping is
\* only logged: the pool is returned either way.
GetPostgresDB(id) == [db |-> id, closed |-> closed]

\* A message without content: before the page received any.
NoMsg == [hasCount |-> FALSE, count |-> 0, message |-> ""]

\* The dashboard page as loaded, before app.js ran connect(): the elements
\* are empty and hidden.
DashInit ==
  /\ ws = "none"
  /\ status = ""
  /\ connected = FALSE
  /\ banner = [shown |-> FALSE, text |-> ""]
  /\ countText = <<>>
  /\ timers = 0
  /\ last = NoMsg
  /\ lastEvent = "load"

\* The timeout variables are unset and no getter has run.
CfgInit ==
  /\ timeoutMS = <<>>
  /\ timeoutFn = "none"
  /\ timeout = <<>>

\* The backend held a counter row when the service started.  A row found at
\* startup has counted at least once; a row at 0 is what ensureSchema
\* leaves, within a run.
HadRow == old >= 1

\* The service and the page before main runs.
InitService ==
  /\ build \in Builds
  /\ storageMode \in Modes
  /\ pgURL \in URLs
  /\ pcMain = "boot"
  /\ store = "none"
  /\ bootUp = FALSE
  /\ dbUp \in BOOLEAN
  /\ rowExists \in BOOLEAN
  /\ tableExists = rowExists
  /\ old \in (IF rowExists THEN 1..MaxOld ELSE {0})
  /\ count = old
  /\ memCount = 0
  /\ cur = 0 /\ pools = {} /\ closed = {}
  /\ memMu = 0 /\ reconnectMu = 0 /\ mu = 0
  /\ pc = [r \in Reqs |-> "idle"]
  /\ db = [r \in Reqs |-> 0]
  /\ newDB = [r \in Reqs |-> 0]
  /\ oldDB = [r \in Reqs |-> 0]
  /\ err = [r \in Reqs |-> <<>>]
  /\ newCount = [r \in Reqs |-> 0]
  /\ resp = [r \in Reqs |-> NoResp]
  /\ attempts = [r \in Reqs |-> 0]
  /\ reconnects = [r \in Reqs |-> 0]
  /\ incs = [r \in Reqs |-> 0]
  /\ infoErr = [r \in Reqs |-> FALSE]
  /\ downAll = [r \in Reqs |-> FALSE]
  /\ overlapped = FALSE
  /\ DashInit

\* The state after construction, with the timeout variables unset.
Init == InitService /\ CfgInit

\* main, from reading STORAGE_MODE to ListenAndServe or log.Fatal.
Main ==
  /\ pcMain = "boot"
  /\ LET s == SelectStore(build, storageMode)
         opens == (s = "cockroach" /\ pgURL # "") \/ s = "postgres"
         o == IF s = "cockroach" /\ pgURL # "" THEN OpenCockroachDB(1)
              ELSE IF s = "postgres" THEN GetPostgresDB(1)
              ELSE [db |-> 0, closed |-> closed]
         fatal == s = "cockroach" /\ CockroachFatal(pgURL, o)
     IN /\ pcMain' = IF fatal THEN "exited" ELSE "serving"
        /\ store' = IF fatal THEN "none" ELSE s
        /\ cur' = o.db
        /\ closed' = o.closed
        /\ pools' = IF opens THEN {1} ELSE {}
  /\ bootUp' = dbUp
  /\ UNCHANGED <<dashVars, envVars, cfgVars, dbUp, sqlVars, count, memCount, lockVars, pc,
                 locals, newCount, resp, histVars, infoErr, downAll,
                 overlapped>>

(***************************************************************************)
(* The environment: the backend goes away and comes back.                  *)
(***************************************************************************)
DBDown ==
  /\ pcMain = "serving" /\ store \in Networked
  /\ dbUp
  /\ dbUp' = FALSE
  /\ UNCHANGED <<dashVars, envVars, cfgVars, mainVars, sqlVars, count, memCount, poolVars,
                 lockVars, pc, locals, newCount, resp, histVars, infoErr,
                 downAll, overlapped>>

DBUp ==
  /\ pcMain = "serving" /\ store \in Networked
  /\ ~dbUp
  /\ dbUp' = TRUE
  /\ downAll' = [r \in Reqs |-> IF InFlight(r) THEN FALSE ELSE downAll[r]]
  /\ UNCHANGED <<dashVars, envVars, cfgVars, mainVars, sqlVars, count, memCount, poolVars,
                 lockVars, pc, locals, newCount, resp, histVars, infoErr,
                 overlapped>>

(***************************************************************************)
(* CountHandler.ServeHTTP.                                                 *)
(***************************************************************************)

\* The handler's prefix of the message: "DB Error: %v" / "Store Error: %v".
Prefix == IF build = "main" THEN "DB Error" ELSE "Store Error"

\* Degraded without the message.
DegradedNoMessage(e) ==
  [status |-> 200, count |-> -1, hostname |-> HostName, node |-> "",
   message |-> <<>>]

\* Degraded with the zero value of Count instead of the sentinel.
DegradedZero(e) ==
  [status |-> 200, count |-> 0, hostname |-> HostName, node |-> "",
   message |-> <<Prefix>> \o e]

\* Degraded that leaves the hostname out.
DegradedNoHost(e) ==
  [status |-> 200, count |-> -1, hostname |-> "", node |-> "",
   message |-> <<Prefix>> \o e]

\* The Count written when Incr returned error e: writeJSON sets no status, so
\* the response is a 200.
Degraded(e) ==
  [status |-> 200, count |-> -1, hostname |-> HostName, node |-> "",
   message |-> <<Prefix>> \o e]

\* Success that treats the error of GetDBNode/GetInfo like the error of Incr.
SuccessNeedsNode(n, node) ==
  IF node = ""
  THEN [status |-> 200, count |-> -1, hostname |-> HostName, node |-> "",
        message |-> <<Prefix, "backend error">>]
  ELSE [status |-> 200, count |-> n, hostname |-> HostName, node |-> node,
        message |-> <<>>]

\* The Count written when Incr returned n; node is "" when GetDBNode/GetInfo
\* failed (omitempty leaves the field out).
Success(n, node) ==
  [status |-> 200, count |-> n, hostname |-> HostName, node |-> node,
   message |-> <<>>]

\* ServeHTTP returned with this response: the goroutine's locals are gone.
Return(r, response) ==
  /\ resp' = [resp EXCEPT ![r] = response]
  /\ pc' = [pc EXCEPT ![r] = "done"]
  /\ db' = [db EXCEPT ![r] = 0]
  /\ newDB' = [newDB EXCEPT ![r] = 0]
  /\ oldDB' = [oldDB EXCEPT ![r] = 0]
  /\ err' = [err EXCEPT ![r] = <<>>]

\* The first step of h.store.Incr for each store.
FirstStep(s) ==
  CASE s = "memory"    -> "memLock"
    [] s = "redis"     -> "redisIncr"
    [] s = "postgres"  -> "pgUpdate"
    [] s = "cockroach" -> "cur"

\* A request arrives: os.Hostname, the context, the call of Incr.  Requests
\* are numbered in the order they arrive.
Start(r) ==
  /\ pcMain = "serving"
  /\ pc[r] = "idle"
  /\ IF r = 1 THEN TRUE ELSE pc[r - 1] # "idle"
  /\ pc' = [pc EXCEPT ![r] = FirstStep(store)]
  /\ downAll' = [downAll EXCEPT ![r] = ~dbUp]
  /\ overlapped' = (overlapped \/ \E q \in Reqs : InFlight(q))
  /\ UNCHANGED <<dashVars, envVars, cfgVars, mainVars, dbUp, sqlVars, count, memCount, poolVars,
                 lockVars, locals, newCount, resp, histVars, infoErr>>

(***************************************************************************)
(* InMemoryStore.                                                          *)
(***************************************************************************)
\* MemLock that gives up with an error when the mutex is held.
MemTryLock(r) ==
  /\ pc[r] = "memLock"
  /\ IF memMu = 0
     THEN /\ memMu' = r
          /\ pc' = [pc EXCEPT ![r] = "memIncr"]
          /\ UNCHANGED <<locals, resp>>
     ELSE /\ memMu' = memMu
          /\ Return(r, Degraded(<<"mutex busy">>))
  /\ UNCHANGED <<fixedVars, sqlVars, count, memCount, poolVars, reconnectMu,
                 mu, newCount, histVars, infoErr>>

\* m.mu.Lock()
MemLock(r) ==
  /\ pc[r] = "memLock"
  /\ memMu = 0
  /\ memMu' = r
  /\ pc' = [pc EXCEPT ![r] = "memIncr"]
  /\ UNCHANGED <<fixedVars, sqlVars, count, memCount, poolVars, reconnectMu, mu,
                 locals, newCount, resp, histVars, infoErr>>

\* MemNext that skips a value.
MemNextSkip(c) == c + 2

\* The value m.count++ leaves.
MemNext(c) == c + 1

\* m.count++; return m.count, nil; the deferred m.mu.Unlock()
MemIncr(r) ==
  /\ pc[r] = "memIncr"
  /\ memCount' = MemNext(memCount)
  /\ newCount' = [newCount EXCEPT ![r] = memCount']
  /\ incs' = [incs EXCEPT ![r] = @ + (memCount' - memCount)]
  /\ memMu' = 0
  /\ pc' = [pc EXCEPT ![r] = "info"]
  /\ UNCHANGED <<fixedVars, sqlVars, count, poolVars, reconnectMu, mu,
                 locals,
                 resp, attempts, reconnects, infoErr>>

(***************************************************************************)
(* The backend's answers.  A statement sent while the backend is reachable *)
(* takes effect; its answer reaches the caller ("ok") or is lost to the    *)
(* context deadline or a dropped connection after the backend applied it   *)
(* ("lost": the caller sees an error).  While it is unreachable the        *)
(* statement fails without effect ("fail").                                *)
(***************************************************************************)
Outcomes == IF dbUp THEN {"ok", "lost"} ELSE {"fail"}

\* A statement on pool h: a closed *sql.DB answers "sql: database is closed".
PoolOutcomes(h) == IF h \in closed THEN {"closed"} ELSE Outcomes

Applied(o) == o \in {"ok", "lost"}

\* The error value of an answer, nil (<<>>) for "ok".  The driver's texts
\* ("sql: database is closed", a dial or deadline error) are one value here:
\* the handlers only format the error into the message.
ErrOf(o) == IF o = "ok" THEN <<>> ELSE <<"backend error">>

(***************************************************************************)
(* RedisStore and PostgresStore (part_005): one statement, no retry.       *)
(***************************************************************************)
\* r.client.Incr(ctx, "count"): INCR makes a missing key 1.
RedisIncr(r) ==
  /\ pc[r] = "redisIncr"
  /\ \E o \in Outcomes :
       /\ count' = IF Applied(o) THEN count + 1 ELSE count
       /\ incs' = [incs EXCEPT ![r] = @ + (count' - count)]
       /\ IF o = "ok"
          THEN /\ newCount' = [newCount EXCEPT ![r] = count']
               /\ pc' = [pc EXCEPT ![r] = "info"]
               /\ UNCHANGED <<resp, locals>>
          ELSE /\ Return(r, Degraded(ErrOf(o)))
               /\ UNCHANGED newCount
  /\ UNCHANGED <<fixedVars, sqlVars, memCount, poolVars, lockVars, attempts,
                 reconnects, infoErr>>

\* UPDATE counters SET count = count + 1 WHERE id = 'default' RETURNING count
\* on p.db; Scan reports sql.ErrNoRows when no row was updated.
PgUpdate(r) ==
  /\ pc[r] = "pgUpdate"
  /\ \E o \in PoolOutcomes(cur) :
       LET hit == Applied(o) /\ rowExists
           e == IF o = "ok" /\ ~rowExists
                THEN <<"sql: no rows in result set">> ELSE ErrOf(o)
       IN /\ count' = IF hit THEN count + 1 ELSE count
          /\ incs' = [incs EXCEPT ![r] = @ + (count' - count)]
          /\ IF e = <<>>
             THEN /\ newCount' = [newCount EXCEPT ![r] = count']
                  /\ pc' = [pc EXCEPT ![r] = "info"]
                  /\ UNCHANGED <<resp, locals>>
             ELSE /\ Return(r, Degraded(e))
                  /\ UNCHANGED newCount
  /\ UNCHANGED <<fixedVars, sqlVars, memCount, poolVars, lockVars, attempts,
                 reconnects, infoErr>>

\* The descriptor GetInfo/GetDBNode returns for the stores without a handle
\* swap, "" with an error.
InfoOf(o) ==
  CASE store = "memory" -> IF build = "main" THEN "" ELSE "In-Memory (Host)"
    [] store = "redis"  -> IF o = "ok" THEN "run_id" ELSE ""
    [] OTHER            -> IF o = "ok" THEN "version" ELSE ""

\* GetInfo/GetDBNode after a successful Incr, then the response.
Info(r) ==
  /\ pc[r] = "info"
  /\ \E o \in (IF store = "memory" THEN {"ok"} ELSE PoolOutcomes(cur)) :
       /\ Return(r, Success(newCount[r], InfoOf(o)))
       /\ infoErr' = [infoErr EXCEPT ![r] = (o # "ok")]
  /\ UNCHANGED <<fixedVars, sqlVars, count, memCount, poolVars, lockVars,
                 newCount, histVars>>

(***************************************************************************)
(* CockroachStore (main.go).                                               *)
(*                                                                         *)
(* c.mu guards only the pointer c.db: currentDB is RLock, one read,        *)
(* RUnlock, and reconnect's write section is Lock, the swap, Unlock.  Each *)
(* section is one step, so the lock is never held between steps.           *)
(* incrOnce's three statements run on the handle read at its start; they   *)
(* are one step, which may stop after any of them.                         *)
(***************************************************************************)

\* Retryable that allows a second retry.
RetryableTwice(n) == n <= 2

\* CockroachStore.Incr: a failed incrOnce is followed by reconnect and one
\* retry only when it was the first one; the retry's error is returned.
Retryable(n) == n = 1

\* incrOnce of request r returned error e.
IncrFail(r, e) ==
  IF Retryable(attempts[r])
  THEN /\ err' = [err EXCEPT ![r] = e]
       /\ pc' = [pc EXCEPT ![r] = "reconnect"]
       /\ UNCHANGED <<resp, db, newDB, oldDB>>
  ELSE Return(r, Degraded(e))

\* c.currentDB()
CurrentDB == cur

\* incrOnce begins: db := c.currentDB(), which waits while c.mu is held for
\* writing.
IncrOnceDB(r) ==
  /\ pc[r] = "cur"
  /\ mu = 0
  /\ attempts' = [attempts EXCEPT ![r] = @ + 1]
  /\ db' = [db EXCEPT ![r] = CurrentDB]
  /\ pc' = [pc EXCEPT ![r] = "stmts"]
  /\ UNCHANGED <<fixedVars, sqlVars, count, memCount, poolVars, lockVars,
                 newDB, oldDB, err, newCount, resp, reconnects, incs, infoErr>>

\* The statements of incrOnce, in order: ensureSchema's CREATE TABLE IF NOT
\* EXISTS and INSERT ... ON CONFLICT DO NOTHING, then the UPDATE.
NStmts == 3

\* How incrOnce can go on handle h: the number of statements the database
\* applied and the answer to the last one sent.  A closed pool and an
\* unreachable database apply none; a reachable one applies them until an
\* answer is lost.
Runs(h) ==
  IF h \in closed THEN {[applied |-> 0, o |-> "closed"]}
  ELSE IF ~dbUp THEN {[applied |-> 0, o |-> "fail"]}
  ELSE {[applied |-> NStmts, o |-> "ok"]}
       \cup {[applied |-> k, o |-> "lost"] : k \in 1..NStmts}

\* The counter after UPDATE counts SET count = count + 1.
UpdateCount(c) == c + 1

\* An insert that overwrites the row it conflicts with
\* (ON CONFLICT (id) DO UPDATE SET count = 0).
InsertRowUpsert(row, c) == 0

\* ensureSchema's INSERT INTO counts (id, count) VALUES (1, 0) ON CONFLICT
\* (id) DO NOTHING: the value of row 1 afterwards, given whether the row
\* existed and its value c.
InsertRow(row, c) == IF row THEN c ELSE 0

\* incrOnce after currentDB: the nil check, ensureSchema, the UPDATE, Scan.
IncrOnce(r) ==
  /\ pc[r] = "stmts"
  /\ IF db[r] = 0
     THEN /\ IncrFail(r, <<"database handle is nil">>)
          /\ UNCHANGED <<sqlVars, count, incs, newCount>>
     ELSE \E run \in Runs(db[r]) :
            LET ins == run.applied >= 2 /\ ~rowExists
                base == IF run.applied >= 2
                        THEN InsertRow(rowExists, count) ELSE count
                upd == run.applied >= 3
            IN /\ tableExists' = (tableExists \/ run.applied >= 1)
               /\ rowExists' = (rowExists \/ ins)
               /\ count' = IF upd THEN UpdateCount(base) ELSE base
               /\ incs' = [incs EXCEPT ![r] = @ + (IF upd THEN count' - base ELSE 0)]
               /\ IF run.o = "ok"
                  THEN /\ newCount' = [newCount EXCEPT ![r] = count']
                       /\ pc' = [pc EXCEPT ![r] = "node"]
                       /\ UNCHANGED <<resp, locals>>
                  ELSE /\ IncrFail(r, ErrOf(run.o))
                       /\ UNCHANGED newCount
  /\ UNCHANGED <<fixedVars, memCount, poolVars, lockVars, attempts,
                 reconnects, infoErr>>

\* ReconnectLock that skips the reconnect when another request has replaced
\* the handle since this request read it: the retry reuses that pool.
ReconnectLockReuse(r) ==
  /\ pc[r] = "reconnect"
  /\ IF cur # db[r]
     THEN /\ pc' = [pc EXCEPT ![r] = "cur"]
          /\ UNCHANGED <<reconnectMu, reconnects>>
     ELSE /\ reconnectMu = 0
          /\ reconnectMu' = r
          /\ reconnects' = [reconnects EXCEPT ![r] = @ + 1]
          /\ pc' = [pc EXCEPT ![r] = "open"]
  /\ UNCHANGED <<fixedVars, sqlVars, count, memCount, poolVars, memMu, mu,
                 locals,
                 newCount, resp, attempts, incs, infoErr>>

\* ReconnectLock that also takes the handle's write lock, for all of
\* reconnect.
ReconnectLockBoth(r) ==
  /\ pc[r] = "reconnect"
  /\ reconnectMu = 0 /\ mu = 0
  /\ reconnectMu' = r /\ mu' = r
  /\ reconnects' = [reconnects EXCEPT ![r] = @ + 1]
  /\ pc' = [pc EXCEPT ![r] = "open"]
  /\ UNCHANGED <<fixedVars, sqlVars, count, memCount, poolVars, memMu, locals,
                 newCount, resp, attempts, incs, infoErr>>

\* reconnect: c.reconnectMu.Lock()
ReconnectLock(r) ==
  /\ pc[r] = "reconnect"
  /\ reconnectMu = 0
  /\ reconnectMu' = r
  /\ reconnects' = [reconnects EXCEPT ![r] = @ + 1]
  /\ pc' = [pc EXCEPT ![r] = "open"]
  /\ UNCHANGED <<fixedVars, sqlVars, count, memCount, poolVars, memMu, mu,
                 locals,
                 newCount, resp, attempts, incs, infoErr>>

\* The id sql.Open gives the next pool.
NextPool == Cardinality(pools) + 1

\* Open with Incr ignoring reconnect's error: it goes on to the retry.
OpenThenRetry(r) ==
  /\ pc[r] = "open"
  /\ LET o == OpenCockroachDB(NextPool)
     IN /\ pools' = pools \cup {NextPool}
        /\ closed' = o.closed
        /\ IF o.db = 0
           THEN /\ reconnectMu' = 0
                /\ pc' = [pc EXCEPT ![r] = "cur"]
                /\ UNCHANGED <<resp, locals>>
           ELSE /\ reconnectMu' = reconnectMu
                /\ newDB' = [newDB EXCEPT ![r] = o.db]
                /\ pc' = [pc EXCEPT ![r] = "lock"]
                /\ UNCHANGED <<resp, db, oldDB, err>>
  /\ UNCHANGED <<fixedVars, sqlVars, count, memCount, cur, memMu, mu, newCount,
                 histVars, infoErr>>

\* Open whose error return leaves reconnectMu locked (no deferred Unlock).
OpenKeepsLock(r) ==
  /\ pc[r] = "open"
  /\ LET o == OpenCockroachDB(NextPool)
     IN /\ pools' = pools \cup {NextPool}
        /\ closed' = o.closed
        /\ reconnectMu' = reconnectMu
        /\ IF o.db = 0
           THEN Return(r, Degraded(err[r] \o
                       <<"reconnect failed", "backend error">>))
           ELSE /\ newDB' = [newDB EXCEPT ![r] = o.db]
                /\ pc' = [pc EXCEPT ![r] = "lock"]
                /\ UNCHANGED <<resp, db, oldDB, err>>
  /\ UNCHANGED <<fixedVars, sqlVars, count, memCount, cur, memMu, mu, newCount,
                 histVars, infoErr>>

\* reconnect: newDB, err := openCockroachDB(c.pgURL).  On error reconnect
\* returns it (the deferred Unlock runs) and Incr returns
\* "%w (reconnect failed: %v)" without a retry.
Open(r) ==
  /\ pc[r] = "open"
  /\ LET o == OpenCockroachDB(NextPool)
     IN /\ pools' = pools \cup {NextPool}
        /\ closed' = o.closed
        /\ IF o.db = 0
           THEN /\ reconnectMu' = 0
                /\ Return(r, Degraded(err[r] \o
                       <<"reconnect failed", "backend error">>))
           ELSE /\ reconnectMu' = reconnectMu
                /\ newDB' = [newDB EXCEPT ![r] = o.db]
                /\ pc' = [pc EXCEPT ![r] = "lock"]
                /\ UNCHANGED <<resp, db, oldDB, err>>
  /\ UNCHANGED <<fixedVars, sqlVars, count, memCount, cur, memMu, mu, newCount,
                 histVars, infoErr>>

\* reconnect: c.mu.Lock(), the write lock of the handle.  Read sections
\* (currentDB) are single steps, so no reader is inside one.
SwapLock(r) ==
  /\ pc[r] = "lock"
  /\ mu = 0
  /\ mu' = r
  /\ pc' = [pc EXCEPT ![r] = "swap"]
  /\ UNCHANGED <<fixedVars, sqlVars, count, memCount, poolVars, memMu,
                 reconnectMu, locals, newCount, resp, histVars, infoErr>>

\* reconnect: oldDB := c.db; c.db = newDB; c.mu.Unlock()
Swap(r) ==
  /\ pc[r] = "swap"
  /\ oldDB' = [oldDB EXCEPT ![r] = cur]
  /\ cur' = newDB[r]
  /\ mu' = 0
  /\ pc' = [pc EXCEPT ![r] = "close"]
  /\ UNCHANGED <<fixedVars, sqlVars, count, memCount, pools, closed, memMu,
                 reconnectMu, db, newDB, err, newCount, resp, histVars,
                 infoErr>>

\* CloseOld that closes the store's handle c.db instead of the local oldDB.
CloseCurrent(r) ==
  /\ pc[r] = "close"
  /\ closed' = closed \cup {cur}
  /\ reconnectMu' = 0
  /\ pc' = [pc EXCEPT ![r] = "cur"]
  /\ UNCHANGED <<fixedVars, sqlVars, count, memCount, cur, pools, memMu, mu,
                 locals, newCount, resp, histVars, infoErr>>

\* CloseOld that returns without closing the old pool.
CloseOldSkipped(r) ==
  /\ pc[r] = "close"
  /\ closed' = closed
  /\ reconnectMu' = 0
  /\ pc' = [pc EXCEPT ![r] = "cur"]
  /\ UNCHANGED <<fixedVars, sqlVars, count, memCount, cur, pools, memMu, mu,
                 locals, newCount, resp, histVars, infoErr>>

\* reconnect: if oldDB != nil { oldDB.Close() }; return nil with the deferred
\* c.reconnectMu.Unlock(); Incr goes on to the retry.
CloseOld(r) ==
  /\ pc[r] = "close"
  /\ closed' = IF oldDB[r] # 0 THEN closed \cup {oldDB[r]} ELSE closed
  /\ reconnectMu' = 0
  /\ pc' = [pc EXCEPT ![r] = "cur"]
  /\ UNCHANGED <<fixedVars, sqlVars, count, memCount, cur, pools, memMu, mu,
                 locals, newCount, resp, histVars, infoErr>>

\* GetDBNode begins, after a successful Incr: db := c.currentDB()
NodeDB(r) ==
  /\ pc[r] = "node"
  /\ mu = 0
  /\ db' = [db EXCEPT ![r] = CurrentDB]
  /\ pc' = [pc EXCEPT ![r] = "nodeQuery"]
  /\ UNCHANGED <<fixedVars, sqlVars, count, memCount, poolVars, lockVars,
                 newDB, oldDB, err, newCount, resp, histVars, infoErr>>

\* GetDBNode: the nil check and SELECT crdb_internal.node_id(), then the
\* response; an error leaves db_node out.
NodeQuery(r) ==
  /\ pc[r] = "nodeQuery"
  /\ \E o \in (IF db[r] = 0 THEN {"fail"} ELSE PoolOutcomes(db[r])) :
       /\ Return(r, Success(newCount[r], IF o = "ok" THEN "Node" ELSE ""))
       /\ infoErr' = [infoErr EXCEPT ![r] = (o # "ok")]
  /\ UNCHANGED <<fixedVars, sqlVars, count, memCount, poolVars, lockVars,
                 newCount, histVars>>

Next ==
  \/ Main
  \/ DBDown
  \/ DBUp
  \/ \E r \in Reqs :
       \/ Start(r)
       \/ MemLock(r)
       \/ MemIncr(r)
       \/ RedisIncr(r)
       \/ PgUpdate(r)
       \/ Info(r)
       \/ IncrOnceDB(r)
       \/ IncrOnce(r)
       \/ ReconnectLock(r)
       \/ Open(r)
       \/ SwapLock(r)
       \/ Swap(r)
       \/ CloseOld(r)
       \/ NodeDB(r)
       \/ NodeQuery(r)

Spec == Init /\ [][Next]_vars

\* A step of the handler serving request r, once it has started.
ReqStep(r) ==
  \/ MemLock(r)
  \/ MemIncr(r)
  \/ RedisIncr(r)
  \/ PgUpdate(r)
  \/ Info(r)
  \/ IncrOnceDB(r)
  \/ IncrOnce(r)
  \/ ReconnectLock(r)
  \/ Open(r)
  \/ SwapLock(r)
  \/ Swap(r)
  \/ CloseOld(r)
  \/ NodeDB(r)
  \/ NodeQuery(r)


(***************************************************************************)
(* The /health route.  The router sends GET /health to HealthHandler and   *)
(* GET / to the CountHandler; SpecHealth is the service receiving both.    *)
(***************************************************************************)

\* http.StatusOK
StatusOK == 200

\* What HealthHandler writes: the status, and a greeting that is no Count.
HealthResponse == [NoResp EXCEPT !.status = StatusOK]

\* A health check that reports the backend's state.
HealthPing(r) ==
  /\ pcMain = "serving"
  /\ pc[r] = "idle"
  /\ IF r = 1 THEN TRUE ELSE pc[r - 1] # "idle"
  /\ pc' = [pc EXCEPT ![r] = "health"]
  /\ resp' = [resp EXCEPT ![r] =
                IF store \in Networked /\ ~dbUp
                THEN [NoResp EXCEPT !.status = 503] ELSE HealthResponse]
  /\ UNCHANGED <<dashVars, envVars, cfgVars, mainVars, dbUp, sqlVars, count, memCount, poolVars,
                 lockVars, locals, newCount, histVars, infoErr, downAll,
                 overlapped>>

\* HealthHandler: request r is a GET /health; it is answered at once, and
\* pc "health" is its final position.
Health(r) ==
  /\ pcMain = "serving"
  /\ pc[r] = "idle"
  /\ IF r = 1 THEN TRUE ELSE pc[r - 1] # "idle"
  /\ pc' = [pc EXCEPT ![r] = "health"]
  /\ resp' = [resp EXCEPT ![r] = HealthResponse]
  /\ UNCHANGED <<dashVars, envVars, cfgVars, mainVars, dbUp, sqlVars, count, memCount, poolVars,
                 lockVars, locals, newCount, histVars, infoErr, downAll,
                 overlapped>>

NextHealth == Next \/ \E r \in Reqs : Health(r)

SpecHealth == Init /\ [][NextHealth]_vars
(***************************************************************************)
(* The dashboard page (dashboard-service/assets/app.js): one WebSocket to  *)
(* the dashboard service, whose messages carry the Count of the counting   *)
(* service.  Each event handler is one step.                               *)
(***************************************************************************)

\* Largest count a message carries.
MaxCount == 2

\* The messages the page may receive: a count (negative ones included) or
\* none, and a message text or none.
Messages ==
  {[hasCount |-> TRUE, count |-> c, message |-> t] :
     c \in (-2)..MaxCount, t \in {"", "DB Error"}}
  \cup {[hasCount |-> FALSE, count |-> 0, message |-> t] :
          t \in {"", "DB Error"}}

svcVars == <<envVars, cfgVars, mainVars, dbUp, sqlVars, count, memCount, poolVars,
             lockVars, pc, locals, newCount, resp, histVars, infoErr,
             downAll, overlapped>>

\* message.count < 0 with only the sentinel -1 taken for an error.
SentinelOnly(m) == m.hasCount /\ m.count = -1

\* message.count < 0: false for a missing count (undefined < 0).
Negative(m) == m.hasCount /\ m.count < 0

\* The text onmessage leaves in #connection-status:
\* disconnectedFromBackendService() or didConnect().
StatusAfter(m) ==
  IF Negative(m) THEN "Counting Service is Unreachable" ELSE "Connected"

\* The decimal digit d as text.
Digit(d) == <<"0", "1", "2", "3", "4", "5", "6", "7", "8", "9">>[d + 1]

\* Number(message.count).toLocaleString(): "NaN" without a count, else the
\* sign and the digits.
FormatCount(m) ==
  IF ~m.hasCount THEN <<"NaN">>
  ELSE IF m.count < 0 THEN <<"-", Digit(-m.count)>> ELSE <<Digit(m.count)>>

\* A banner that, once shown, is never hidden again.
BannerSticky(m) ==
  IF m.message # "" THEN [shown |-> TRUE, text |-> m.message]
  ELSE banner

\* showCount: the banner.  Hiding it leaves its text.
BannerAfter(m) ==
  IF m.message # "" THEN [shown |-> TRUE, text |-> m.message]
  ELSE [shown |-> FALSE, text |-> banner.text]

\* showCount: the text of #count.
CountTextAfter(m) ==
  IF m.message # "" /\ m.hasCount /\ m.count = -1 THEN <<"!">>
  ELSE FormatCount(m)

\* connect(): ws = new WebSocket(wsUrl), called when the script is loaded.
Connect ==
  /\ lastEvent = "load" /\ ws = "none"
  /\ ws' = "connecting"
  /\ lastEvent' = "connect"
  /\ UNCHANGED <<svcVars, status, connected, banner, countText, timers, last>>

\* The reconnect timer fires: connect() replaces the closed socket.
TimerFire ==
  /\ timers > 0
  /\ timers' = timers - 1
  /\ ws' = "connecting"
  /\ lastEvent' = "timer"
  /\ UNCHANGED <<svcVars, status, connected, banner, countText, last>>

\* ws.onopen: didConnect(); requestCount()
OnOpen ==
  /\ ws = "connecting"
  /\ ws' = "open"
  /\ status' = "Connected" /\ connected' = TRUE
  /\ lastEvent' = "open"
  /\ UNCHANGED <<svcVars, banner, countText, timers, last>>

\* ws.onmessage: the status from the count, then showCount(message)
OnMessage(m) ==
  /\ ws = "open"
  /\ status' = StatusAfter(m)
  /\ connected' = (status' = "Connected")
  /\ banner' = BannerAfter(m)
  /\ countText' = CountTextAfter(m)
  /\ last' = m
  /\ lastEvent' = "message"
  /\ UNCHANGED <<svcVars, ws, timers>>

\* ws.onerror: disconnected()
OnError ==
  /\ ws \in {"connecting", "open"}
  /\ status' = "Disconnected" /\ connected' = FALSE
  /\ lastEvent' = "error"
  /\ UNCHANGED <<svcVars, ws, banner, countText, timers, last>>

\* An onclose that gives up: it schedules no reconnect.
OnCloseGivesUp ==
  /\ ws \in {"connecting", "open"}
  /\ ws' = "closed"
  /\ status' = "Disconnected" /\ connected' = FALSE
  /\ timers' = timers
  /\ lastEvent' = "close"
  /\ UNCHANGED <<svcVars, banner, countText, last>>

\* ws.onclose: disconnected(); reconnectTimer = setTimeout(connect, 2000)
OnClose ==
  /\ ws \in {"connecting", "open"}
  /\ ws' = "closed"
  /\ status' = "Disconnected" /\ connected' = FALSE
  /\ timers' = timers + 1
  /\ lastEvent' = "close"
  /\ UNCHANGED <<svcVars, banner, countText, last>>

\* The page alone: the counting service of this browser's run is not started.
InitDash ==
  /\ Init
  /\ build = "main" /\ storageMode = "" /\ pgURL = "" /\ dbUp /\ ~rowExists

NextDash ==
  \/ Connect
  \/ TimerFire
  \/ OnOpen
  \/ \E m \in Messages : OnMessage(m)
  \/ OnError
  \/ OnClose

SpecDash == InitDash /\ [][NextDash]_vars

\* The page in a browser that runs its timers: a timeout set by
\* setTimeout(connect, 2000) eventually fires.
SpecDashLive == SpecDash /\ WF_vars(TimerFire)

(***************************************************************************)
(* The timeout getters of counting-service/main.go.  An int and a          *)
(* time.Duration are 64 bits wide: a value is its 16-bit limbs, least      *)
(* significant first, in two's complement, and arithmetic wraps as Go's    *)
(* does.  A text is the sequence of its characters.                        *)
(***************************************************************************)

\* Longest of the short digit strings the timeout variable is drawn from.
MaxDigits == 2

LimbBase == 2^16

\* Limbs of an int64.
Limbs == 64 \div 16

\* x * k + c for small k and c, at the width of x (the carry out is lost).
RECURSIVE MulAddFrom(_, _, _, _)
MulAddFrom(x, k, c, i) ==
  IF i > Len(x) THEN <<>>
  ELSE LET p == x[i] * k + c
       IN <<p % LimbBase>> \o MulAddFrom(x, k, p \div LimbBase, i + 1)

MulAdd(x, k, c) == MulAddFrom(x, k, c, 1)

Zero(n) == [i \in 1..n |-> 0]

\* The small number n as an int64.
FromInt(n) == MulAdd(Zero(Limbs), 1, n)

IsZero(x) == \A i \in DOMAIN x : x[i] = 0

\* x < 0: the sign bit is set.
IsNegative(x) == x[Len(x)] >= LimbBase \div 2

\* x > 0
IsPositive(x) == ~IsNegative(x) /\ ~IsZero(x)

IsDigit(c) == \E d \in 0..9 : Digit(d) = c

DigitValue(c) == CHOOSE d \in 0..9 : Digit(d) = c

\* strings.TrimSpace
RECURSIVE TrimLeft(_)
TrimLeft(s) == IF s # <<>> /\ Head(s) = " " THEN TrimLeft(Tail(s)) ELSE s

RECURSIVE TrimRight(_)
TrimRight(s) ==
  IF s # <<>> /\ s[Len(s)] = " "
  THEN TrimRight(SubSeq(s, 1, Len(s) - 1)) ELSE s

TrimSpace(s) == TrimRight(TrimLeft(s))

\* strconv: the digits s[i..] appended to the magnitude acc, which is one
\* limb wider than an int64; a character that is no digit is a syntax
\* error, a magnitude of 2^64 or more a range error.
RECURSIVE ParseDigits(_, _, _)
ParseDigits(s, i, acc) ==
  IF i > Len(s) THEN [err |-> "", mag |-> acc]
  ELSE IF ~IsDigit(s[i]) THEN [err |-> "syntax", mag |-> acc]
  ELSE LET n == MulAdd(acc, 10, DigitValue(s[i]))
       IN IF n[Limbs + 1] # 0 THEN [err |-> "range", mag |-> acc]
          ELSE ParseDigits(s, i + 1, n)

\* strconv.Atoi on a 64-bit build: an optional sign and decimal digits, in
\* -2^63 .. 2^63 - 1.  The result is the sign and the magnitude.
Atoi(s) ==
  LET signed == s # <<>> /\ Head(s) \in {"+", "-"}
      neg == s # <<>> /\ Head(s) = "-"
      digits == IF signed THEN Tail(s) ELSE s
      p == ParseDigits(digits, 1, Zero(Limbs + 1))
      mag == SubSeq(p.mag, 1, Limbs)
      minInt == mag = [i \in 1..Limbs |-> IF i = Limbs THEN LimbBase \div 2 ELSE 0]
      e == IF digits = <<>> THEN "syntax"
           ELSE IF p.err # "" THEN p.err
           ELSE IF IsNegative(mag) /\ ~(neg /\ minInt) THEN "range"
           ELSE ""
  IN [err |-> e, neg |-> neg, mag |-> mag]

\* ms <= 0
NonPositive(a) == a.neg \/ IsZero(a.mag)

MulThousand(x) == MulAdd(x, 1000, 0)

\* time.Duration(x) * time.Millisecond: nanoseconds, in int64 arithmetic.
Milliseconds(x) == MulThousand(MulThousand(x))

\* 1 * time.Second
defaultDBRequestTimeout == MulThousand(Milliseconds(FromInt(1)))

\* 1500 * time.Millisecond
defaultDNSTimeout == Milliseconds(FromInt(1500))

\* The body the two getters share: the trimmed text, the default for an
\* empty, unparsable or non-positive value, else the value in milliseconds.
TimeoutOf(env, default) ==
  LET raw == TrimSpace(env)
      ms == Atoi(raw)
  IN IF raw = <<>> THEN default
     ELSE IF ms.err # "" \/ NonPositive(ms) THEN default
     ELSE Milliseconds(ms.mag)

getCustomDNSTimeout(env) == TimeoutOf(env, defaultDNSTimeout)

getDBRequestTimeout(env) == TimeoutOf(env, defaultDBRequestTimeout)

\* The text of the decimal digits ds.
Text(ds) == [i \in 1..Len(ds) |-> Digit(ds[i])]

\* All digit strings of 1 to n digits.
DigitStrings(n) == UNION {[1..k -> {Digit(d) : d \in 0..9}] : k \in 1..n}

\* Long values: around 2^63 / 10^6 milliseconds, multiples of 2^58, around
\* 2^64 / 10^6, and the ends of the int64 range.
LongValues ==
  {<<9,2,2,3,3,7,2,0,3,6,8,5,4>>,
   <<9,2,2,3,3,7,2,0,3,6,8,5,5>>,
   <<1,8,4,4,6,7,4,4,0,7,3,7,0,9>>,
   <<1,8,4,4,6,7,4,4,0,7,3,7,1,0>>,
   <<2,8,8,2,3,0,3,7,6,1,5,1,7,1,1,7,4,4>>,
   <<9,2,2,3,3,7,2,0,3,6,8,5,4,7,7,5,8,0,7>>,
   <<9,2,2,3,3,7,2,0,3,6,8,5,4,7,7,5,8,0,8>>,
   <<9,9,9,9,9,9,9,9,9,9,9,9,9,9,9,9,9,9,9,9,9>>}

\* The values the environment may give a timeout variable.
TimeoutInputs ==
  DigitStrings(MaxDigits)
  \cup {Text(ds) : ds \in LongValues}
  \cup {<<"-">> \o Text(ds) : ds \in LongValues}
  \cup {<<>>, <<" ">>, <<"a", "b", "c">>, <<"1", ".", "5">>, <<"-", "5">>,
        <<"+", "7">>, <<" ", "2", "5", "0", " ">>, <<"5", " ", "5">>,
        <<"-">>}

\* configureCustomDNSResolver: dnsTimeout := getCustomDNSTimeout()
ReadDNSTimeout ==
  /\ timeoutFn = "none"
  /\ timeoutFn' = "DNS_TIMEOUT_MS"
  /\ timeout' = getCustomDNSTimeout(timeoutMS)
  /\ UNCHANGED <<dashVars, envVars, timeoutMS, mainVars, dbUp, sqlVars, count,
                 memCount, poolVars, lockVars, pc, locals, newCount, resp,
                 histVars, infoErr, downAll, overlapped>>

\* main: CountHandler{store: store, dbRequestTimeout: getDBRequestTimeout()}
ReadDBRequestTimeout ==
  /\ timeoutFn = "none"
  /\ timeoutFn' = "DB_REQUEST_TIMEOUT_MS"
  /\ timeout' = getDBRequestTimeout(timeoutMS)
  /\ UNCHANGED <<dashVars, envVars, timeoutMS, mainVars, dbUp, sqlVars, count,
                 memCount, poolVars, lockVars, pc, locals, newCount, resp,
                 histVars, infoErr, downAll, overlapped>>

\* The process with its timeout variable set to any of the inputs.
InitTimeout ==
  /\ InitService
  /\ build = "main" /\ storageMode = "" /\ pgURL = "" /\ dbUp /\ ~rowExists
  /\ timeoutMS \in TimeoutInputs
  /\ timeoutFn = "none"
  /\ timeout = <<>>

NextTimeout == ReadDNSTimeout \/ ReadDBRequestTimeout

SpecTimeout == InitTimeout /\ [][NextTimeout]_vars

(***************************************************************************)
(* Properties.                                                             *)
(***************************************************************************)
Done(r) == pc[r] = "done"

\* The response of r is the degraded one.
IsDegraded(r) == resp[r].count = -1

\* The message of r's response contains the text t.
Mentions(r, t) == \E i \in DOMAIN resp[r].message : resp[r].message[i] = t

\* C1: in in-memory mode, from a fresh counter, the Nth request of a
\* sequential run is answered with count N and without a message.
C1_SequentialCounts ==
  (store = "memory" /\ ~overlapped) =>
    \A r \in Reqs : Done(r) => resp[r].count = r /\ resp[r].message = <<>>

\* A sequential in-memory run in which every request was answered.
C1_Witness ==
  store = "memory" /\ ~overlapped /\ \A r \in Reqs : Done(r)

\* The counter the store held before the first request.
Base == IF store = "memory" THEN 0 ELSE old

\* C2: for the in-memory and the relational stores, when all MaxReq requests
\* of a run succeeded their counts are exactly old+1 .. old+MaxReq (distinct
\* and gap-free) and the stored counter is old+MaxReq.
C2_GapFree ==
  (/\ store \in {"memory", "cockroach", "postgres"}
   /\ \A r \in Reqs : Done(r) /\ ~IsDegraded(r))
  => /\ {resp[r].count : r \in Reqs} = (Base + 1)..(Base + MaxReq)
     /\ Stored = Base + MaxReq

\* C2 holds of the runs in which no request incremented twice: the
\* double increment of the retry is its only violation.
C2_GapFreeSingle ==
  (\A r \in Reqs : incs[r] <= 1) => C2_GapFree

\* C3: a request served while the backend was unreachable throughout is
\* answered with status 200, count -1 and a non-empty message; no response
\* has another status, and a request waiting for the reconnect lock waits
\* for a request that is on its way to releasing it.
C3_DegradedWhileDown ==
  store \in Networked =>
    \A r \in Reqs :
      /\ (Done(r) /\ downAll[r]) =>
           resp[r].status = 200 /\ resp[r].count = -1 /\ resp[r].message # <<>>
      /\ Done(r) => resp[r].status = 200
      /\ (pc[r] = "reconnect" /\ reconnectMu # 0) =>
           pc[reconnectMu] \in {"open", "lock", "swap", "close"}

\* A request was answered while the backend was unreachable throughout.
C3_Witness ==
  store \in Networked /\ \E r \in Reqs : Done(r) /\ downAll[r]

\* C4: when Incr succeeded and GetInfo/GetDBNode failed, the response has
\* the count Incr returned (not -1), no message, and no descriptor.
C4_InfoFailureKeepsCount ==
  \A r \in Reqs :
    (Done(r) /\ infoErr[r]) =>
      /\ resp[r].count = newCount[r]
      /\ resp[r].count # -1
      /\ resp[r].message = <<>>
      /\ resp[r].node = ""
      /\ resp[r].status = 200

\* A request whose Incr succeeded and whose GetInfo/GetDBNode failed.
C4_Witness ==
  \E r \in Reqs : Done(r) /\ infoErr[r] /\ newCount[r] >= 1

\* C5: no request increases the stored counter by more than 1.
C5_AtMostOneIncrement ==
  \A r \in Reqs : incs[r] <= 1

\* The values of STORAGE_MODE no build names and no document lists.
Unrecognized == Modes \ {"", "memory", "cockroach", "postgres", "redis"}

\* C6 as stated: an unrecognized storage mode selects the in-memory store
\* and the service serves.
C6_FallbackMemory ==
  (pcMain # "boot" /\ storageMode \in Unrecognized) =>
    pcMain = "serving" /\ store = "memory"

\* C6 amended: with an unrecognized storage mode the service starts serving
\* in both builds; main.go selects the in-memory store, part_005 the Redis
\* store.
C6_FallbackPerBuild ==
  (pcMain # "boot" /\ storageMode \in Unrecognized) =>
    /\ pcMain = "serving"
    /\ store = IF build = "main" THEN "memory" ELSE "redis"

\* main.go started with an unrecognized mode and answered a request.
C6_Witness ==
  /\ build = "main" /\ storageMode \in Unrecognized
  /\ pcMain = "serving" /\ store = "memory"
  /\ \E r \in Reqs : Done(r)

\* The relational store the environment selects, "" when none.
Relational ==
  LET s == SelectStore(build, storageMode)
  IN IF s \in {"cockroach", "postgres"} THEN s ELSE ""

\* The first request was served while the database was still unreachable
\* and its response is degraded, names the database error and the host.
FirstDegraded ==
  (Done(1) /\ downAll[1]) =>
    /\ resp[1].count = -1
    /\ Mentions(1, "backend error")
    /\ resp[1].hostname = HostName

\* C7 as stated: a relational store is selected (with its connection
\* string) and the database is unreachable at startup: the service starts,
\* and the first request is answered degraded.
C7_StartsDegraded ==
  (pcMain # "boot" /\ Relational # "" /\ pgURL # "" /\ ~bootUp) =>
    pcMain = "serving" /\ FirstDegraded

\* C7 amended: with the database unreachable at startup the Postgres store
\* (part_005) still starts and the first request, served while the database
\* is still unreachable, is answered degraded with the error and the
\* hostname; the Cockroach store (main.go) exits before serving a request.
C7_StartupUnreachable ==
  (pcMain # "boot" /\ ~bootUp) =>
    /\ Relational = "postgres" => pcMain = "serving" /\ FirstDegraded
    /\ Relational = "cockroach" =>
         pcMain = "exited" /\ \A r \in Reqs : pc[r] = "idle"

\* Postgres, unreachable at startup and still unreachable during the first
\* request, which was answered.
C7_Witness ==
  Relational = "postgres" /\ ~bootUp /\ Done(1) /\ downAll[1]

\* C8: a response has a message exactly when its count is -1, and the
\* response after a successful Incr has that count, at least 1, and no
\* message.
C8_MessageIffSentinel ==
  \A r \in Reqs :
    Done(r) =>
      /\ resp[r].message # <<>> <=> resp[r].count = -1
      /\ resp[r].count # -1 => resp[r].count >= 1
      /\ newCount[r] # 0 =>
           resp[r].count = newCount[r] /\ resp[r].count >= 1
           /\ resp[r].message = <<>>

\* A degraded and a successful response in one run.
C8_Witness ==
  \E r, q \in Reqs :
    Done(r) /\ Done(q) /\ resp[r].count = -1 /\ resp[q].count >= 1

\* C9: one CockroachStore.Incr makes at most two incrOnce calls and at most
\* one reconnect; it reconnects only after a failed first attempt, retries
\* only after a successful reconnect, and then exactly once.
C9_BoundedRetry ==
  store = "cockroach" =>
    \A r \in Reqs :
      /\ attempts[r] <= 2
      /\ reconnects[r] <= 1
      /\ attempts[r] = 2 => reconnects[r] = 1
      /\ pc[r] \in {"reconnect", "open", "lock", "swap", "close"} =>
           attempts[r] = 1 /\ err[r] # <<>>
      /\ (attempts[r] = 1 /\ pc[r] \in {"node", "nodeQuery"}) =>
           reconnects[r] = 0
      /\ (Done(r) /\ attempts[r] = 1 /\ ~IsDegraded(r)) => reconnects[r] = 0
      /\ (Done(r) /\ Mentions(r, "reconnect failed")) =>
           attempts[r] = 1 /\ reconnects[r] = 1
      /\ (Done(r) /\ reconnects[r] = 1 /\ ~Mentions(r, "reconnect failed")) =>
           attempts[r] = 2

\* A request that was answered after a reconnect and the retry.
C9_Witness ==
  store = "cockroach" /\
  \E r \in Reqs : Done(r) /\ attempts[r] = 2 /\ reconnects[r] = 1

\* C10: no step of a request runs a statement (incrOnce's statements, the
\* node-id query) on a pool that has been closed.
C10_NoUseAfterClose ==
  [][\A r \in Reqs :
       (pc[r] \in {"stmts", "nodeQuery"} /\ pc'[r] # pc[r] /\ db[r] # 0)
         => db[r] \notin closed]_vars

\* C11: a step of reconnect that closes a pool never closes the store's
\* current handle; when it closes the old handle, the current handle is
\* already the pool this reconnect opened, and that pool is open.
C11_CloseAfterSwap ==
  [][\A h \in closed' \ closed :
       /\ h # cur /\ h # cur'
       /\ \A r \in Reqs :
            (pc[r] = "close" /\ pc'[r] # pc[r]) =>
              h = oldDB[r] /\ cur = newDB[r] /\ newDB[r] \notin closed']_vars

\* A reconnect replaced the first pool and closed it.
C11_Witness ==
  store = "cockroach" /\ cur # 1 /\ 1 \in closed

\* C12: the handle's write lock is held only by a request at the pointer
\* swap; while a request is opening a new pool or closing the old one the
\* lock is free, and another request that reads the handle while the new
\* pool is being opened gets the handle then current, which the reconnect
\* has not replaced yet.
C12_ReadDuringReconnect ==
  [][/\ mu # 0 => pc[mu] = "swap"
     /\ \A r \in Reqs :
          /\ pc[r] \in {"open", "close"} => reconnectMu = r /\ mu = 0
          /\ pc[r] = "open" =>
               \A q \in Reqs \ {r} :
                 (pc[q] \in {"cur", "node"} /\ pc'[q] # pc[q]) =>
                   db'[q] = cur /\ cur' = cur /\ newDB[r] = 0]_vars

\* One request is opening a new pool and another is about to read the
\* handle, which nobody holds locked.
C12_Witness ==
  \E r, q \in Reqs :
    pc[r] = "open" /\ reconnectMu = r /\ pc[q] \in {"cur", "node"} /\ mu = 0

\* C13: for the relational stores, when the database held no counter row
\* and the first request, alone, was answered without a backend error, its
\* response has count 1 and the row exists with value 1.
C13_LazyRow ==
  (/\ store \in {"cockroach", "postgres"}
   /\ ~HadRow
   /\ Done(1) /\ \A q \in Reqs \ {1} : pc[q] = "idle"
   /\ ~Mentions(1, "backend error"))
  => resp[1].count = 1 /\ rowExists /\ count = 1

\* C13 for the Cockroach store in the runs in which the request incremented
\* at most once.
C13_LazyRowCockroachSingle ==
  (store = "cockroach" /\ incs[1] <= 1) => C13_LazyRow

\* The statement request r is about to run goes to the backend: its handle
\* is not a pool the store has closed.  An error it gets is the backend's.
ReachesBackend(r) == db[r] \notin closed

\* C14: for the Redis and the Cockroach store, a request answered while the
\* backend is reachable has a non-negative count and no message, unless the
\* backend itself failed the request's last statement (its answer timed
\* out or was dropped): no request fails on state the store keeps.
C14_RecoversWhenReachable ==
  [][\A r \in Reqs :
       (/\ store \in {"redis", "cockroach"}
        /\ dbUp /\ dbUp'
        /\ ~Done(r) /\ Done(r)')
       => \/ resp'[r].count >= 0 /\ resp'[r].message = <<>>
          \/ ReachesBackend(r)]_vars

\* C15 as stated: a backend that takes a connection string is selected and
\* PG_URL is missing: the process exits before serving any request.
C15_MissingURLFatal ==
  (pcMain # "boot" /\ Relational # "" /\ pgURL = "") =>
    pcMain = "exited" /\ \A r \in Reqs : pc[r] = "idle"

\* C15 amended: with PG_URL missing, main.go with the Cockroach store exits
\* before serving any request; part_005 with the Postgres store takes its
\* built-in connection string and starts serving.
C15_MissingURLPerBuild ==
  (pcMain # "boot" /\ pgURL = "") =>
    /\ Relational = "cockroach" =>
         pcMain = "exited" /\ store = "none" /\ \A r \in Reqs : pc[r] = "idle"
    /\ Relational = "postgres" =>
         pcMain = "serving" /\ store = "postgres" /\ cur # 0

\* main.go exited for the missing PG_URL although the database was reachable.
C15_Witness ==
  Relational = "cockroach" /\ pgURL = "" /\ dbUp /\ pcMain = "exited"

\* C16: in in-memory mode Incr and GetInfo/GetDBNode return no error: every
\* response has status 200, the count Incr returned (at least 1) and no
\* message, whatever the interleaving; the store touches no backend.
C16_MemoryNeverFails ==
  store = "memory" =>
    /\ \A r \in Reqs :
         /\ ~infoErr[r]
         /\ Done(r) =>
              /\ resp[r].status = 200
              /\ resp[r].count = newCount[r] /\ resp[r].count >= 1
              /\ resp[r].message = <<>>
    /\ count = old /\ pools = {}

\* Two in-memory requests overlapped and both were answered, while the
\* backend the other stores would use is unreachable.
C16_Witness ==
  store = "memory" /\ overlapped /\ ~dbUp /\ \A r \in Reqs : Done(r)

\* C17: with STORAGE_MODE unset the service runs on the Redis store.
C17_DefaultRedis ==
  (pcMain # "boot" /\ storageMode = "") =>
    pcMain = "serving" /\ store = "redis"

\* C18: every response, degraded or successful, on every store and whether
\* or not the backend is reachable, has the name os.Hostname gave as its
\* hostname.
C18_HostnameAlways ==
  \A r \in Reqs :
    Done(r) => resp[r].hostname = HostName /\ resp[r].hostname # ""

\* A degraded and a successful response of one run of a networked store.
C18_Witness ==
  store \in Networked /\
  \E r, q \in Reqs :
    Done(r) /\ Done(q) /\ IsDegraded(r) /\ ~IsDegraded(q)

\* C19: a GET /health is answered 200 whatever the store, whether or not
\* the backend is reachable and whatever was served before, and answering it
\* changes neither the counter nor anything else the store keeps.
C19_HealthUnconditional ==
  [][\A r \in Reqs :
       /\ pc[r] = "health" => resp[r].status = StatusOK
       /\ (pc[r] # "health" /\ pc'[r] = "health") =>
            /\ resp'[r].status = StatusOK
            /\ Stored' = Stored
            /\ UNCHANGED <<count, memCount, sqlVars, poolVars, lockVars>>]_vars

\* A GET /health answered after a degraded GET /, the backend being
\* unreachable.
C19_Witness ==
  \E r, q \in Reqs :
    /\ q < r /\ Done(q) /\ IsDegraded(q)
    /\ pc[r] = "health" /\ resp[r].status = StatusOK
    /\ store \in Networked /\ ~dbUp

\* C20: right after a message was handled the connection status is
\* "Counting Service is Unreachable" when the message's count is negative
\* and "Connected" in every other case.
C20_StatusFromCount ==
  lastEvent = "message" =>
    /\ status = "Counting Service is Unreachable"
         <=> (last.hasCount /\ last.count < 0)
    /\ ~(last.hasCount /\ last.count < 0) =>
         status = "Connected" /\ connected
    /\ (last.hasCount /\ last.count < 0) => ~connected

\* A message with a negative count other than -1 was handled after the
\* status had been "Connected".
C20_Witness ==
  lastEvent = "message" /\ last.hasCount /\ last.count < -1
  /\ status = "Counting Service is Unreachable"

\* C21: when reconnect cannot open a new pool, the store's handle stays as
\* it was and is not closed, the reconnect lock is released, no second
\* incrOnce is made, and the request is answered with the error of the first
\* attempt followed by the reconnect failure.
C21_FailedReconnect ==
  [][\A r \in Reqs :
       (pc[r] = "open" /\ pc'[r] # "open" /\ ~dbUp) =>
         /\ cur' = cur /\ cur \notin closed'
         /\ reconnectMu' = 0
         /\ Done(r)' /\ attempts'[r] = 1
         /\ err[r] # <<>>
         /\ resp'[r] = Degraded(err[r] \o <<"reconnect failed", "backend error">>)
         /\ NextPool \in closed']_vars

\* A request was answered with a failed reconnect and the handle is open.
C21_Witness ==
  /\ store = "cockroach" /\ cur # 0 /\ cur \notin closed
  /\ \E r \in Reqs : Done(r) /\ Mentions(r, "reconnect failed")

\* C22: once NewCockroachStore succeeded, the store's current handle is
\* never nil and is an opened pool that has not been closed.
C22_CurrentOpen ==
  store = "cockroach" =>
    cur # 0 /\ cur \in pools /\ cur \notin closed

\* Two reconnects have replaced the handle while a request still holds a
\* pool that was closed.
C22_Witness ==
  /\ store = "cockroach" /\ cur = 3
  /\ \E r \in Reqs : pc[r] = "stmts" /\ db[r] \in closed

\* C23: whenever no reconnect is in progress (the reconnect lock is free),
\* the current handle is the one opened pool that is not closed: every pool
\* a reconnect replaced and every pool whose ping failed has been closed.
C23_NoLeak ==
  /\ (store = "cockroach" /\ reconnectMu = 0) => pools \ closed = {cur}
  /\ (build = "main" /\ pcMain = "exited") => pools \ closed = {}

\* No reconnect is in progress after one reconnect replaced the handle and
\* another failed to open a pool.
C23_Witness ==
  /\ store = "cockroach" /\ reconnectMu = 0 /\ cur >= 2
  /\ \E r \in Reqs : Done(r) /\ Mentions(r, "reconnect failed")
  /\ \A r \in Reqs : pc[r] \in {"idle", "done"}

\* The requests inside reconnect, between taking reconnectMu and giving it
\* back.
Reconnecting == {r \in Reqs : pc[r] \in {"open", "lock", "swap", "close"}}

\* The number of pools the reconnects of requests 1..n have asked for.
RECURSIVE ReconnectsUpTo(_)
ReconnectsUpTo(n) == IF n = 0 THEN 0 ELSE reconnects[n] + ReconnectsUpTo(n - 1)

\* C24: in CockroachDB mode at most one request at a time is inside
\* reconnect and it holds reconnectMu; a request whose first attempt failed
\* waits for the lock and then performs exactly one reconnect of its own
\* before its retry or its failure, and each reconnect opens a pool of its
\* own, so the failing requests open as many pools as there are of them.
C24_SerializedReconnects ==
  store = "cockroach" =>
    /\ Reconnecting = (IF reconnectMu = 0 THEN {} ELSE {reconnectMu})
    /\ \A r \in Reqs :
         /\ reconnects[r] =
              IF \/ r \in Reconnecting
                 \/ attempts[r] = 2
                 \/ pc[r] = "cur" /\ attempts[r] = 1
                 \/ Done(r) /\ IsDegraded(r)
              THEN 1 ELSE 0
         /\ pc[r] = "reconnect" => attempts[r] = 1 /\ resp[r] = NoResp
    /\ Cardinality(pools) =
         1 + ReconnectsUpTo(MaxReq)
           - Cardinality({r \in Reqs : pc[r] = "open"})

\* C24: both requests failed their first attempt while the other was in
\* flight, one waited at the lock, and both have reconnected.
C24_Witness ==
  /\ store = "cockroach" /\ overlapped
  /\ \A r \in {1, 2} : reconnects[r] = 1 /\ pc[r] \in {"cur", "stmts", "done"}
  /\ Cardinality(pools) = 3

\* Request r holds none of the store's locks.
HoldsNoLock(r) == memMu # r /\ reconnectMu # r /\ mu # r

\* C25: the store's locks never deadlock.  A request takes a bounded number
\* of steps (at most two increment attempts and one reconnect), so it
\* terminates unless it is stuck; and it is never stuck: whenever it is in
\* flight, it can take a step itself or it waits for a lock whose holder is
\* in flight and can take a step.  Once answered, with a count or with an
\* error, it holds neither the in-memory mutex nor the reconnect lock nor
\* the handle lock.
C25_LocksReleased ==
  \A r \in Reqs :
    /\ Done(r) => HoldsNoLock(r)
    /\ attempts[r] <= 2 /\ reconnects[r] <= 1
    /\ InFlight(r) =>
         \/ ENABLED ReqStep(r)
         \/ \E q \in Reqs \ {r} :
              InFlight(q) /\ ~HoldsNoLock(q) /\ ENABLED ReqStep(q)

\* C25: two overlapping requests in CockroachDB mode both took the
\* reconnect lock, one returned an error and the other a count, and all
\* locks are free.
C25_Witness ==
  /\ store = "cockroach" /\ overlapped
  /\ \E r, q \in Reqs :
       /\ Done(r) /\ reconnects[r] = 1 /\ IsDegraded(r)
       /\ Done(q) /\ reconnects[q] = 1 /\ ~IsDegraded(q)
  /\ memMu = 0 /\ reconnectMu = 0 /\ mu = 0

\* The number of times the UPDATEs of requests 1..n have increased the
\* counter.
RECURSIVE IncsUpTo(_)
IncsUpTo(n) == IF n = 0 THEN 0 ELSE incs[n] + IncsUpTo(n - 1)

\* C26: in CockroachDB mode ensureSchema, run by every increment attempt of
\* every request, never removes the table or the row and never changes an
\* existing row's value: the counter is always its value before the first
\* request (0 when ensureSchema had to create the row) plus the increments
\* the UPDATEs made, and while the row is missing no increment was made.
C26_EnsureSchemaKeepsCount ==
  store = "cockroach" =>
    /\ rowExists => tableExists
    /\ HadRow => rowExists
    /\ count = old + IncsUpTo(MaxReq)
    /\ ~rowExists => count = 0 /\ IncsUpTo(MaxReq) = 0

\* C26: the row was missing, the first ensureSchema created it, and the
\* ensureSchema of the other request's attempt left the incremented value
\* in place.
C26_Witness ==
  /\ store = "cockroach" /\ ~HadRow /\ rowExists
  /\ incs[1] >= 1 /\ incs[2] >= 1
  /\ count = incs[1] + incs[2]
  /\ \A r \in {1, 2} : Done(r)

\* C27: once a message has been handled, whatever events followed it, the
\* error banner is shown exactly when the latest message has a non-empty
\* message field, the count reads "!" exactly when that message also has
\* count -1, and in every other case the count reads the latest message's
\* formatted count.
C27_LatestMessageOnly ==
  countText # <<>> =>
    /\ banner.shown <=> last.message # ""
    /\ banner.shown => banner.text = last.message
    /\ countText = <<"!">>
         <=> (last.message # "" /\ last.hasCount /\ last.count = -1)
    /\ countText # <<"!">> => countText = FormatCount(last)

\* C27: a healthy message was handled after a degraded one: the banner,
\* which still holds the degraded message's text, is hidden and the count is
\* shown.
C27_Witness ==
  /\ last.hasCount /\ last.count = MaxCount /\ last.message = ""
  /\ banner.text = "DB Error" /\ ~banner.shown
  /\ countText = <<Digit(MaxCount)>>

\* C28: the page never gives up reconnecting.  A reconnect is pending
\* exactly while the socket is closed, and there is at most one; a close
\* event schedules exactly one, an error event none; and whenever the
\* socket is closed a new connection attempt is eventually made.
C28_AlwaysReconnects ==
  /\ [](timers <= 1 /\ (ws = "closed" <=> timers = 1))
  /\ [][/\ (lastEvent' = "close" /\ ws' = "closed" /\ ws # "closed")
             => timers' = timers + 1
        /\ (lastEvent' = "error" /\ ws' = ws) => timers' = timers]_vars
  /\ (ws = "closed" ~> ws = "connecting")

\* C28: the socket was closed and the timer has made the next connection
\* attempt, after a message had been shown on the earlier connection.
C28_Witness ==
  lastEvent = "timer" /\ ws = "connecting" /\ timers = 0 /\ countText # <<>>

\* The default of the getter that ran.
DefaultOf(fn) ==
  IF fn = "DNS_TIMEOUT_MS" THEN defaultDNSTimeout ELSE defaultDBRequestTimeout

\* The duration d is exactly ms milliseconds: ms * 10^6 computed without a
\* width limit equals d.
ExactMilliseconds(d, ms) ==
  Milliseconds(ms \o Zero(2)) = d \o Zero(2)

\* C29: the duration a timeout getter returns is strictly positive: the
\* default when the variable is empty, not an integer or not positive, and
\* otherwise exactly the given number of milliseconds, for every integer the
\* parser accepts.
C29_PositiveTimeout ==
  timeoutFn # "none" =>
    LET raw == TrimSpace(timeoutMS)
        ms == Atoi(raw)
    IN /\ IsPositive(timeout)
       /\ IF raw = <<>> \/ ms.err # "" \/ NonPositive(ms)
          THEN timeout = DefaultOf(timeoutFn)
          ELSE ExactMilliseconds(timeout, ms.mag)

\* The largest number of milliseconds whose nanoseconds fit an int64:
\* (2^63 - 1) \div 10^6.
MaxMilliseconds == Atoi(Text(<<9,2,2,3,3,7,2,0,3,6,8,5,4>>)).mag

\* x <= y for magnitudes of the same width.
RECURSIVE LeqFrom(_, _, _)
LeqFrom(x, y, i) ==
  IF i = 0 THEN TRUE
  ELSE IF x[i] # y[i] THEN x[i] < y[i]
  ELSE LeqFrom(x, y, i - 1)

\* C29 holds of the values up to MaxMilliseconds: the overflow of the
\* conversion to nanoseconds is its only violation.
C29_PositiveWithoutOverflow ==
  LET ms == Atoi(TrimSpace(timeoutMS))
  IN (ms.err = "" /\ ~NonPositive(ms)
      /\ ~LeqFrom(ms.mag, MaxMilliseconds, Limbs))
     \/ C29_PositiveTimeout

\* A value above MaxMilliseconds was read and the duration returned is
\* negative.
C29_NegativeTimeout ==
  timeoutFn = "DB_REQUEST_TIMEOUT_MS" /\ IsNegative(timeout)

\* A multiple of 2^58 milliseconds was read and the duration returned is 0.
C29_ZeroTimeout ==
  timeoutFn = "DB_REQUEST_TIMEOUT_MS" /\ IsZero(timeout)
====
